---------------------------- MODULE Spec2Model ----------------------------
(***************************************************************************)
(* Backtest simulation core of market-lab:                                 *)
(*   engine/evaluation/baseline_portfolio.py  (periodic equal weight)      *)
(*   engine/evaluation/buyhold_portfolio.py   (single-entry buy and hold)  *)
(*                                                                         *)
(* Spec is a call of either simulation on a well-formed panel and cost     *)
(* model; SpecMain is a run of either script's main() on a panel file and  *)
(* a command line (load, simulate, write, summarize); SpecStats is a call  *)
(* of summarize_equity on an equity table; SpecEntry is a call of the      *)
(* single-entry simulation alone, with more initial cash and cost values.  *)
(*                                                                         *)
(* Around the core: SpecPipeline is a run of cli/daily_update.py main(),   *)
(* which calls the data steps and the periodic backtest one after the      *)
(* other; SpecSanitize is sanitize_df of                                   *)
(* engine/datasource/sanitize_ohlc.py applied to a frame and then to its   *)
(* own output.                                                             *)
(*                                                                         *)
(* Every quantity of the two simulation loops is a Python float.  A float  *)
(* is modelled as a binary floating-point number <<m, e>> of value         *)
(* m * 2^e whose significand m has Precision bits (0 is <<0, 0>>), and     *)
(* every arithmetic operation rounds its exact result to the nearest such  *)
(* number, ties to even, as IEEE-754 does.  Precision is narrower than     *)
(* the 53 bits of the interpreter's float; the exponent is unbounded.      *)
(***************************************************************************)
EXTENDS Integers, Sequences, FiniteSets

\* ------------------------------------------------------------------ bounds
\* Bits of a float's significand.
Precision == 11
\* Rows (dates) of the longest price panel.
MaxDates == 3
\* Data rows of the longest panel file main() is run on.
MaxFileRows == 2
\* Tickers of the longest --tickers list of a daily update.
MaxTickers == 2
\* Rows of the longest frame sanitize_df is applied to.
MaxFrameRows == 2
\* Times sanitize_df is applied in a row, each time to its last output.
MaxApplications == 2

\* ---------------------------------------------------------- float arithmetic
Abs(n) == IF n < 0 THEN -n ELSE n

Sign(n) == IF n < 0 THEN -1 ELSE 1

\* Number of bits of the positive integer a.
BitLen(a) == CHOOSE k \in 1..30 : 2^(k-1) <= a /\ a < 2^k

\* The float nearest to n * 2^e, ties to even.
Round(n, e) ==
  IF n = 0 THEN <<0, 0>>
  ELSE LET a  == Abs(n)
           bl == BitLen(a)
       IN IF bl > Precision
          THEN LET k  == bl - Precision
                   q  == a \div 2^k
                   r  == a % 2^k
                   h  == 2^(k-1)
                   q1 == IF r > h \/ (r = h /\ q % 2 = 1) THEN q + 1 ELSE q
               IN IF q1 = 2^Precision
                  THEN <<Sign(n) * 2^(Precision-1), e + k + 1>>
                  ELSE <<Sign(n) * q1, e + k>>
          ELSE <<n * 2^(Precision-bl), e - (Precision-bl)>>

\* float(n) of an integer literal or argument.
Float(n) == Round(n, 0)

FNeg(x) == <<-x[1], x[2]>>

FAbs(x) == <<Abs(x[1]), x[2]>>

\* x + y.  An operand below a quarter of the other's last place is absorbed.
FAdd(x, y) ==
  IF x[1] = 0 THEN y
  ELSE IF y[1] = 0 THEN x
  ELSE LET hi == IF x[2] >= y[2] THEN x ELSE y
           lo == IF x[2] >= y[2] THEN y ELSE x
           d  == hi[2] - lo[2]
       IN IF d > Precision + 1 THEN hi
          ELSE Round(hi[1] * 2^d + lo[1], lo[2])

FSub(x, y) == FAdd(x, FNeg(y))

FMul(x, y) == Round(x[1] * y[1], x[2] + y[2])

\* x / y, y # 0: the quotient to Precision + 2 bits and a sticky bit, rounded.
FDiv(x, y) ==
  IF x[1] = 0 THEN <<0, 0>>
  ELSE LET num == Abs(x[1]) * 2^(Precision+2)
           q   == num \div Abs(y[1])
           r   == num % Abs(y[1])
           n   == 2 * q + (IF r = 0 THEN 0 ELSE 1)
       IN Round(Sign(x[1]) * Sign(y[1]) * n, x[2] - y[2] - Precision - 3)

FLt(x, y) == FSub(x, y)[1] < 0

FLe(x, y) == FSub(x, y)[1] <= 0

\* Python's min(x, y) and max(x, y): the first argument unless the second is
\* strictly smaller (larger).
FMin(x, y) == IF FLt(y, x) THEN y ELSE x

FMax(x, y) == IF FLt(x, y) THEN y ELSE x

Zero == Float(0)

One == Float(1)

\* ------------------------------------------------------------------ inputs
\* The columns of a well-formed panel, by asset identifier.
Columns == <<"A", "B", "C">>

\* Close prices a panel row may hold (strictly positive).
PriceRows ==
  { [a \in {"A", "B", "C"} |-> 5],
    [a \in {"A", "B", "C"} |-> IF a = "A" THEN 10 ELSE 5],
    [a \in {"A", "B", "C"} |-> IF a = "C" THEN 2 ELSE 5] }

\* Cost models: Costs(fee_bps, slippage_bps, fixed_per_trade), all >= 0,
\* slippage below 100 %.
CostModels ==
  { [fee_bps |-> 0,    slippage_bps |-> 0,    fixed_per_trade |-> 0],
    [fee_bps |-> 1250, slippage_bps |-> 2500, fixed_per_trade |-> 0],
    [fee_bps |-> 0,    slippage_bps |-> 0,    fixed_per_trade |-> 600],
    [fee_bps |-> 1250, slippage_bps |-> 2500, fixed_per_trade |-> 600] }

\* --initial: the paper cash a run starts with (the default).
InitialCash == 1000

\* A date is <<ym, day>>: ym numbers the (year, month) pairs in calendar
\* order.  The date after d in a panel is a later day of d's month or the
\* first trading day of the next month.
FirstDate == <<1, 1>>

LaterDates(d) == { <<d[1], d[2] + 1>>, <<d[1] + 1, 1>> }

\* DatetimeIndex of a panel whose dates are strictly increasing.
Indexes ==
  { ix \in UNION { [1..n -> (1..MaxDates) \X (1..MaxDates)] : n \in 1..MaxDates } :
      /\ ix[1] = FirstDate
      /\ \A j \in 2..Len(ix) : ix[j] \in LaterDates(ix[j-1]) }

\* The panels load_panel_close returns for a well-formed file: sorted by
\* Date, every cell numeric.
Panels ==
  UNION { { [j \in 1..Len(ix) |-> [Date |-> ix[j], px |-> pr[j]]] :
              pr \in [1..Len(ix) -> PriceRows] } : ix \in Indexes }

\* ---------------------------------------------------- panel file and loader
\* Dates compare by (ym, day).
DateLe(d1, d2) == d1[1] < d2[1] \/ (d1[1] = d2[1] /\ d1[2] <= d2[2])

\* The header of a panel file, after the Date column: the asset columns in
\* the order the file lists them.
Headers == { <<"A", "B", "C">>, <<"C", "A", "B">> }

\* The Date cell of a data row of a file: rows come in any order and a date
\* may occur on several rows.
FileDates == { <<1, 1>>, <<1, 2>>, <<2, 1>> }

\* The price cells of a data row, as the text the file holds: numerals, an
\* empty cell, a cell that is not a number.
CellRows ==
  { [a \in {"A", "B", "C"} |-> IF a = "A" THEN "10" ELSE IF a = "B" THEN "5" ELSE "2"],
    [a \in {"A", "B", "C"} |-> IF a = "B" THEN "" ELSE "5"],
    [a \in {"A", "B", "C"} |-> IF a = "C" THEN "abc" ELSE "5"] }

PanelFiles ==
  { [header |-> h, rows |-> r] :
      h \in Headers,
      r \in UNION { [1..n -> [Date : FileDates, cells : CellRows]] : n \in 1..MaxFileRows } }

\* No file: simulate is called on a panel directly.
NoFile == [header |-> <<>>, rows |-> <<>>]

\* pd.to_numeric(text, errors="coerce"): <<TRUE, number>> for a numeral,
\* <<FALSE, 0>> (NaN) for anything else.
to_numeric(text) ==
  CASE text = "2"  -> <<TRUE, 2>>
    [] text = "5"  -> <<TRUE, 5>>
    [] text = "10" -> <<TRUE, 10>>
    [] OTHER       -> <<FALSE, 0>>

\* Mutant: no cell counts as missing.
never_na(cell) == FALSE

\* df.isna() of one coerced cell.
isna(cell) == ~cell[1]

Permutations(n) ==
  { p \in [1..n -> 1..n] : \A a, b \in 1..n : p[a] = p[b] => a = b }

\* df.sort_values("Date"): the rows in ascending date order.  The sort is
\* not stable (quicksort): rows of the same date come in any order.
sort_values(rows) ==
  { [j \in 1..Len(rows) |-> rows[p[j]]] :
      p \in { p \in Permutations(Len(rows)) :
                \A j \in 1..(Len(rows) - 1) : DateLe(rows[p[j]].Date, rows[p[j+1]].Date) } }

\* The outcomes of load_panel_close(file): ValueError when a coerced cell is
\* NaN, else the sorted frame of numbers.
load_panel_close(file) ==
  { LET df == [j \in 1..Len(sorted) |->
                 [Date |-> sorted[j].Date,
                  px   |-> [a \in DOMAIN sorted[j].cells |-> to_numeric(sorted[j].cells[a])]]]
    IN IF \E j \in 1..Len(df) : \E a \in DOMAIN df[j].px : isna(df[j].px[a])
       THEN [error |-> TRUE, df |-> <<>>]
       ELSE [error |-> FALSE,
             df    |-> [j \in 1..Len(df) |->
                          [Date |-> df[j].Date,
                           px   |-> [a \in DOMAIN df[j].px |-> df[j].px[a][2]]]]] :
    sorted \in sort_values(file.rows) }

\* The command lines main() is run with: --initial, --fee-bps,
\* --slippage-bps, --fixed.  argparse takes any float.
ArgLines ==
  { [initial |-> InitialCash,  fee_bps |-> 0,     slippage_bps |-> 0,     fixed |-> 0],
    [initial |-> InitialCash,  fee_bps |-> 1250,  slippage_bps |-> 2500,  fixed |-> 600],
    [initial |-> InitialCash,  fee_bps |-> -1250, slippage_bps |-> 0,     fixed |-> 0],
    [initial |-> InitialCash,  fee_bps |-> 0,     slippage_bps |-> -2500, fixed |-> 0],
    [initial |-> InitialCash,  fee_bps |-> 0,     slippage_bps |-> 0,     fixed |-> -600],
    [initial |-> 0,            fee_bps |-> 0,     slippage_bps |-> 0,     fixed |-> 0],
    [initial |-> -InitialCash, fee_bps |-> 0,     slippage_bps |-> 0,     fixed |-> 0] }

\* ------------------------------------------------------------------- state
VARIABLES
  policy,        \* "periodic" (baseline_portfolio) or "buyhold" (buyhold_portfolio)
  close,         \* the price panel
  initial_cash,  \* --initial
  costs,         \* Costs
  cash,          \* PortfolioState.cash
  qty,           \* PortfolioState.holdings: asset -> float
  trade_rows,    \* the trade ledger
  equity_rows,   \* the equity snapshots
  delta_val,     \* the rebalance event's delta per asset
  pc,            \* position in the simulation loop
  i,             \* row of close the loop is at
  side,          \* pass of the rebalance event: index into Sides
  k,             \* index into assets of the inner loop
  events,        \* history: the rows on which a rebalance event ran
  assets,        \* list(close.columns): the universe, in column order
  panel_file,    \* --panel: the CSV file main() reads
  out_files,     \* --out-equity and --out-trades: the files main() has written
  summary,       \* the result of summarize_equity
  options,       \* daily_update: args, the parsed command line
  step,          \* daily_update: index into Steps of the step main() is at
  running,       \* daily_update: the step has started and has not returned
  failed,        \* daily_update: main() was ended by an exception
  ticker,        \* daily_update: index of the ticker being downloaded
  log,           \* history: the steps started and how each ended
  df,            \* sanitize_ohlc: the frame read from a CSV file
  results        \* sanitize_ohlc: what each application of sanitize_df returned

backtest == << policy, close, initial_cash, costs, cash, qty, trade_rows,
               equity_rows, delta_val, pc, i, side, k, events, assets, panel_file,
               out_files, summary >>

pipeline == << options, step, running, failed, ticker, log >>

sanitizer == << df, results >>

vars == << backtest, pipeline, sanitizer >>

\* No daily update is running.
NoPipeline ==
  /\ options = <<>>
  /\ step = 0
  /\ running = FALSE
  /\ failed = FALSE
  /\ ticker = 0
  /\ log = <<>>

\* No frame is being sanitized.
NoSanitizer == df = <<>> /\ results = <<>>

inputs == << policy, close, initial_cash, costs, assets, panel_file >>

outputs == << out_files, summary >>

AssetSet == { assets[j] : j \in 1..Len(assets) }

bps_to_rate(bps) == FDiv(Float(bps), Float(10000))

fee_rate == bps_to_rate(costs.fee_bps)

slip_rate == bps_to_rate(costs.slippage_bps)

fixed == Float(costs.fixed_per_trade)

\* close.iterrows(): the date and the prices (as floats) of row j.
DateOf(j) == close[j].Date

PriceOf(j, a) == Float(close[j].px[a])

\* Mutant: the last date of each month, tail(1) for head(1).
last_trading_day_each_month(index) ==
  { index[j] : j \in { j \in 1..Len(index) :
                         \A h \in (j+1)..Len(index) : index[h][1] # index[j][1] } }

\* Mutant: every date of the panel is a rebalance day.
every_trading_day(index) == { index[j] : j \in 1..Len(index) }

\* s.groupby([index.year, index.month]).head(1).index
first_trading_day_each_month(index) ==
  { index[j] : j \in { j \in 1..Len(index) :
                         \A h \in 1..(j-1) : index[h][1] # index[j][1] } }

\* Mutant: the periodic policy rebalances on every date of the panel.
rebalance_every_day == { DateOf(j) : j \in 1..Len(close) }

rebalance_days == first_trading_day_each_month([j \in 1..Len(close) |-> DateOf(j)])

\* sum(qty[a] * prices[a] for a in assets), left to right from 0.
RECURSIVE SumValue(_, _, _)
SumValue(q, j, n) ==
  IF n = 0 THEN Zero
  ELSE FAdd(SumValue(q, j, n - 1), FMul(q[assets[n]], PriceOf(j, assets[n])))

portfolio_value(c, q, j) == FAdd(c, SumValue(q, j, Len(assets)))

target_w == FDiv(One, Float(Len(assets)))

TradeRow(dt, a, sd, dq, exec_price, notional_exec, var_cost, fix_cost, total_cost) ==
  [ Date |-> dt, asset |-> a, side |-> sd, qty |-> dq, price |-> exec_price,
    notional |-> notional_exec, fee_var |-> var_cost, fee_fixed |-> fix_cost,
    fee_total |-> total_cost ]

\* Mutant: the quantity to sell is not clamped to the holding.
NoClamp(dq, held) == dq

\* dq = min(dq, qty[a])
ClampToHeld(dq, held) == FMin(dq, held)

\* Mutant: a SELL pays the variable fee only, not the fixed cost.
ExecSellNoFixed(c, q, a, dv, j) ==
  LET notional      == FAbs(dv)
      exec_price    == FMul(PriceOf(j, a), FSub(One, slip_rate))
      dq            == ClampToHeld(FDiv(notional, exec_price), q)
      notional_exec == FMul(dq, exec_price)
      var_cost      == FMul(notional_exec, fee_rate)
      fix_cost      == Zero
      total_cost    == FAdd(var_cost, fix_cost)
  IN [ traded |-> TRUE,
       cash   |-> FAdd(c, FSub(notional_exec, total_cost)),
       qty    |-> FSub(q, dq),
       row    |-> TradeRow(DateOf(j), a, "SELL", dq, exec_price, notional_exec,
                           var_cost, fix_cost, total_cost) ]

\* One SELL: cash c, holding q of asset a, delta dv < 0, at row j.
ExecSell(c, q, a, dv, j) ==
  LET notional      == FAbs(dv)
      exec_price    == FMul(PriceOf(j, a), FSub(One, slip_rate))
      dq            == ClampToHeld(FDiv(notional, exec_price), q)
      notional_exec == FMul(dq, exec_price)
      var_cost      == FMul(notional_exec, fee_rate)
      fix_cost      == fixed
      total_cost    == FAdd(var_cost, fix_cost)
  IN [ traded |-> TRUE,
       cash   |-> FAdd(c, FSub(notional_exec, total_cost)),
       qty    |-> FSub(q, dq),
       row    |-> TradeRow(DateOf(j), a, "SELL", dq, exec_price, notional_exec,
                           var_cost, fix_cost, total_cost) ]

\* max(0.0, (cash - costs.fixed_per_trade) / (1.0 + fee_rate))
max_notional_exec(c) == FMax(Zero, FDiv(FSub(c, fixed), FAdd(One, fee_rate)))

\* Mutant: the quantity bought is taken from the affordable maximum, not
\* from the executed notional.
ExecBuyMaxQty(c, q, a, notional, j) ==
  LET exec_price    == FMul(PriceOf(j, a), FAdd(One, slip_rate))
      notional_exec == FMin(notional, max_notional_exec(c))
      dq            == FDiv(max_notional_exec(c), exec_price)
      var_cost      == FMul(notional_exec, fee_rate)
      fix_cost      == fixed
      total_cost    == FAdd(var_cost, fix_cost)
  IN IF FLe(notional_exec, Zero)
     THEN [ traded |-> FALSE, cash |-> c, qty |-> q ]
     ELSE [ traded |-> TRUE,
            cash   |-> FSub(c, FAdd(notional_exec, total_cost)),
            qty    |-> FAdd(q, dq),
            row    |-> TradeRow(DateOf(j), a, "BUY", dq, exec_price, notional_exec,
                                var_cost, fix_cost, total_cost) ]

\* Mutant: a BUY is priced as a SELL is, at close * (1 - slippage).
ExecBuyAtSellPrice(c, q, a, notional, j) ==
  LET exec_price    == FMul(PriceOf(j, a), FSub(One, slip_rate))
      notional_exec == FMin(notional, max_notional_exec(c))
      dq            == FDiv(notional_exec, exec_price)
      var_cost      == FMul(notional_exec, fee_rate)
      fix_cost      == fixed
      total_cost    == FAdd(var_cost, fix_cost)
  IN IF FLe(notional_exec, Zero)
     THEN [ traded |-> FALSE, cash |-> c, qty |-> q ]
     ELSE [ traded |-> TRUE,
            cash   |-> FSub(c, FAdd(notional_exec, total_cost)),
            qty    |-> FAdd(q, dq),
            row    |-> TradeRow(DateOf(j), a, "BUY", dq, exec_price, notional_exec,
                                var_cost, fix_cost, total_cost) ]

\* One cash-constrained BUY of desired notional > 0: skipped when nothing
\* is affordable.
ExecBuy(c, q, a, notional, j) ==
  LET exec_price    == FMul(PriceOf(j, a), FAdd(One, slip_rate))
      notional_exec == FMin(notional, max_notional_exec(c))
      dq            == FDiv(notional_exec, exec_price)
      var_cost      == FMul(notional_exec, fee_rate)
      fix_cost      == fixed
      total_cost    == FAdd(var_cost, fix_cost)
  IN IF FLe(notional_exec, Zero)
     THEN [ traded |-> FALSE, cash |-> c, qty |-> q ]
     ELSE [ traded |-> TRUE,
            cash   |-> FSub(c, FAdd(notional_exec, total_cost)),
            qty    |-> FAdd(q, dq),
            row    |-> TradeRow(DateOf(j), a, "BUY", dq, exec_price, notional_exec,
                                var_cost, fix_cost, total_cost) ]

\* The body of "for a in assets" for one side of a rebalance event.
SideStep(sd, c, q, a, dv, j) ==
  IF sd = "SELL" /\ FLt(dv, Zero) THEN ExecSell(c, q, a, dv, j)
  ELSE IF sd = "BUY" /\ FLt(Zero, dv) THEN ExecBuy(c, q, a, dv, j)
  ELSE [ traded |-> FALSE, cash |-> c, qty |-> q ]

\* Mutant: the BUY pass runs before the SELL pass.
BuysFirst == <<"BUY", "SELL">>

\* for side in ("SELL", "BUY")
Sides == <<"SELL", "BUY">>

Last(sq) == sq[Len(sq)]

\* One side's pass of the rebalance event of row j over the first n assets of
\* order, from portfolio st; limited records a BUY sized by the cash at hand
\* instead of its delta.
RECURSIVE Pass(_, _, _, _, _)
Pass(sd, st, order, j, n) ==
  IF n = 0 THEN st
  ELSE LET prev == Pass(sd, st, order, j, n - 1)
           a    == order[n]
           r    == SideStep(sd, prev.cash, prev.qty[a], a, delta_val[a], j)
       IN [ cash    |-> r.cash,
            qty     |-> [prev.qty EXCEPT ![a] = r.qty],
            limited |-> \/ prev.limited
                        \/ /\ sd = "BUY" /\ FLt(Zero, delta_val[a])
                           /\ FLt(max_notional_exec(prev.cash), delta_val[a]) ]

SellPass(c, q, j, order) ==
  Pass("SELL", [cash |-> c, qty |-> q, limited |-> FALSE], order, j, Len(assets))

\* The portfolio a rebalance event leaves when its SELL pass visits the
\* assets in sellOrder and its BUY pass in buyOrder.
EventResult(c, q, j, sellOrder, buyOrder) ==
  Pass("BUY", SellPass(c, q, j, sellOrder), buyOrder, j, Len(assets))

\* Cash and holdings before the current row's step: those of the last snapshot.
PreCash == IF equity_rows = <<>> THEN Float(initial_cash) ELSE Last(equity_rows).cash

PreQty == IF equity_rows = <<>> THEN [a \in AssetSet |-> Zero] ELSE Last(equity_rows).qty

\* The entry loop of simulate_buyhold_equal_weight over the first n assets:
\* the cash and holdings it leaves and the trade rows it appends.
RECURSIVE entry(_)
entry(n) ==
  IF n = 0
  THEN [ cash |-> Float(initial_cash), qty |-> [a \in AssetSet |-> Zero], rows |-> <<>> ]
  ELSE LET prev == entry(n - 1)
           a    == assets[n]
           r    == ExecBuy(prev.cash, prev.qty[a], a, FMul(Float(initial_cash), target_w), 1)
       IN [ cash |-> r.cash,
            qty  |-> [prev.qty EXCEPT ![a] = r.qty],
            rows |-> IF r.traded THEN Append(prev.rows, r.row) ELSE prev.rows ]

\* What simulate_buyhold_equal_weight(close, initial_cash, costs) returns:
\* the ledger of the entry loop and one snapshot per date of what it left.
simulate_buyhold_equal_weight ==
  LET st == entry(Len(assets))
  IN [ trades |-> st.rows,
       equity |-> [ j \in 1..Len(close) |->
                      [ Date   |-> DateOf(j),
                        equity |-> portfolio_value(st.cash, st.qty, j),
                        cash   |-> st.cash,
                        qty    |-> st.qty,
                        val    |-> [a \in AssetSet |-> FMul(st.qty[a], PriceOf(j, a))] ] ] ]

\* ------------------------------------------------------------- statistics
\* The equity column is a column of numpy floats: a division by zero gives
\* NaN or an infinity, not an exception.  NaN, inf and -inf are the three
\* floats written with a zero significand and a non-zero exponent.
NaN == <<0, 1>>

PosInf == <<0, 2>>

NegInf == <<0, 3>>

IsFinite(x) == x[1] # 0 \/ x[2] = 0

\* x / y of two finite numpy floats.
NDiv(x, y) ==
  IF y[1] # 0 THEN FDiv(x, y)
  ELSE IF x[1] = 0 THEN NaN
  ELSE IF x[1] > 0 THEN PosInf ELSE NegInf

\* x - y and x * y, y finite.
NSub(x, y) == IF IsFinite(x) THEN FSub(x, y) ELSE x

NMul(x, y) ==
  IF IsFinite(x) THEN FMul(x, y)
  ELSE IF x = NaN \/ y[1] = 0 THEN NaN
  ELSE IF (x = PosInf) = (y[1] > 0) THEN PosInf ELSE NegInf

\* x < y, neither NaN.
NLt(x, y) ==
  IF x = NegInf THEN y # NegInf
  ELSE IF y = PosInf THEN x # PosInf
  ELSE IF x = PosInf \/ y = NegInf THEN FALSE
  ELSE FLt(x, y)

RECURSIVE MaxOfFirst(_, _)
MaxOfFirst(eq, n) == IF n = 1 THEN eq[1] ELSE FMax(MaxOfFirst(eq, n - 1), eq[n])

\* Mutant: the peak is the maximum of the whole series.
series_max(eq, j) == MaxOfFirst(eq, Len(eq))

\* series.cummax() at position j: the running peak.
cummax(eq, j) == MaxOfFirst(eq, j)

\* Series.min() over the first n values: NaN is skipped, and is the result
\* when nothing else is there.
RECURSIVE MinOfFirst(_, _)
MinOfFirst(dd, n) ==
  IF n = 0 THEN NaN
  ELSE LET m == MinOfFirst(dd, n - 1)
       IN IF dd[n] = NaN THEN m
          ELSE IF m = NaN THEN dd[n]
          ELSE IF NLt(dd[n], m) THEN dd[n] ELSE m

\* (series / series.cummax() - 1.0).min()
max_drawdown(series) ==
  LET dd == [j \in 1..Len(series) |-> NSub(NDiv(series[j], cummax(series, j)), One)]
  IN MinOfFirst(dd, Len(series))

\* Calendar days from date d1 to date d2: a date <<ym, day>> is day number
\* 31 * ym + day.
Days(d1, d2) == (31 * d2[1] + d2[2]) - (31 * d1[1] + d1[2])

\* Mutant: the power is evaluated whatever years is; 1.0 / 0.0 raises
\* ZeroDivisionError.
cagr_unguarded(eq, years) ==
  IF years[1] = 0
  THEN [raised |-> TRUE, pow |-> TRUE, base |-> NDiv(eq[Len(eq)], eq[1]), exponent |-> NaN]
  ELSE [raised |-> FALSE, pow |-> TRUE, base |-> NDiv(eq[Len(eq)], eq[1]),
        exponent |-> FDiv(One, years)]

\* (eq.iloc[-1] / eq.iloc[0]) ** (1.0 / years) - 1.0 if years > 0 else 0.0.
\* The power of two floats is kept as its base and exponent; without it
\* (pow FALSE) the value is 0.0.
cagr(eq, years) ==
  IF years[1] > 0
  THEN [raised |-> FALSE, pow |-> TRUE, base |-> NDiv(eq[Len(eq)], eq[1]),
        exponent |-> FDiv(One, years)]
  ELSE [raised |-> FALSE, pow |-> FALSE, base |-> Zero, exponent |-> Zero]

\* summarize_equity(equity), without the volatility, which no property reads.
summarize_equity(equity) ==
  LET eq    == [j \in 1..Len(equity) |-> equity[j].equity]
      years == FDiv(Float(Days(equity[1].Date, equity[Len(equity)].Date)), Round(1461, -2))
      c     == cagr(eq, years)
  IN [ raised          |-> c.raised,
       start_equity    |-> eq[1],
       end_equity      |-> eq[Len(eq)],
       years           |-> years,
       CAGR            |-> c,
       MaxDrawdown_pct |-> NMul(max_drawdown(eq), Float(100)),
       trading_days    |-> Len(eq) ]

\* The equity values of the tables summarize_equity is applied to.
EquityValues == { Float(-2), Zero, Float(1), Float(2), Float(3), Float(4) }

\* Equity tables: a Date and an equity column, dates ascending, possibly
\* repeated.
EquityTables ==
  UNION { { [j \in 1..n |-> [Date |-> ds[j], equity |-> es[j]]] :
              ds \in { ds \in [1..n -> (1..MaxDates) \X (1..MaxDates)] :
                         /\ ds[1] = FirstDate
                         /\ \A j \in 2..n : ds[j] \in LaterDates(ds[j-1]) \cup {ds[j-1]} },
              es \in [1..n -> EquityValues] } : n \in 1..MaxDates }

\* ------------------------------------------------------------------ actions
\* simulate_...(close, initial_cash, costs) is entered with a well-formed
\* panel and cost model.
Init ==
  /\ NoPipeline /\ NoSanitizer
  /\ policy \in {"periodic", "buyhold"}
  /\ panel_file = NoFile
  /\ assets = Columns
  /\ close \in Panels
  /\ out_files = <<>>
  /\ summary = <<>>
  /\ initial_cash = InitialCash
  /\ costs \in CostModels
  /\ cash = Float(initial_cash)
  /\ qty = [a \in AssetSet |-> Zero]
  /\ trade_rows = <<>>
  /\ equity_rows = <<>>
  /\ delta_val = [a \in AssetSet |-> Zero]
  /\ pc = IF policy = "periodic" THEN "loop" ELSE "entry"
  /\ i = 1
  /\ side = 1
  /\ k = 1
  /\ events = <<>>

\* Periodic: top of "for dt, prices in close.iterrows()": value the
\* portfolio and, on a rebalance day, set the deltas.
LoopHead ==
  /\ policy = "periodic" /\ pc = "loop"
  /\ IF DateOf(i) \in rebalance_days
     THEN LET pv == portfolio_value(cash, qty, i)
          IN /\ delta_val' = [a \in AssetSet |->
                                FSub(FMul(pv, target_w), FMul(qty[a], PriceOf(i, a)))]
             /\ pc' = "trade"
             /\ events' = Append(events, i)
     ELSE /\ pc' = "snapshot"
          /\ UNCHANGED << delta_val, events >>
  /\ side' = 1
  /\ k' = 1
  /\ UNCHANGED << pipeline, sanitizer, inputs, outputs, cash, qty, trade_rows, equity_rows, i >>

\* Mutant: every BUY of a rebalance event is sized from the cash the SELL
\* pass left, not from the cash at hand.
TradeIterEventCash ==
  /\ policy = "periodic" /\ pc = "trade"
  /\ LET a   == assets[k]
         buy == Sides[side] = "BUY"
         c0  == IF buy THEN SellPass(PreCash, PreQty, i, assets).cash ELSE cash
         r   == SideStep(Sides[side], c0, qty[a], a, delta_val[a], i)
     IN /\ cash' = IF ~buy THEN r.cash
                   ELSE IF r.traded THEN FSub(cash, FAdd(r.row.notional, r.row.fee_total))
                   ELSE cash
        /\ qty' = [qty EXCEPT ![a] = r.qty]
        /\ trade_rows' = IF r.traded THEN Append(trade_rows, r.row) ELSE trade_rows
  /\ IF k < Len(assets)
     THEN k' = k + 1 /\ UNCHANGED << side, pc >>
     ELSE /\ k' = 1
          /\ IF side < Len(Sides)
             THEN side' = side + 1 /\ UNCHANGED pc
             ELSE side' = 1 /\ pc' = "snapshot"
  /\ UNCHANGED << pipeline, sanitizer, inputs, outputs, equity_rows, delta_val, i, events >>

\* Periodic: one iteration of "for a in assets" within one side.
TradeIter ==
  /\ policy = "periodic" /\ pc = "trade"
  /\ LET a == assets[k]
         r == SideStep(Sides[side], cash, qty[a], a, delta_val[a], i)
     IN /\ cash' = r.cash
        /\ qty' = [qty EXCEPT ![a] = r.qty]
        /\ trade_rows' = IF r.traded THEN Append(trade_rows, r.row) ELSE trade_rows
  /\ IF k < Len(assets)
     THEN k' = k + 1 /\ UNCHANGED << side, pc >>
     ELSE /\ k' = 1
          /\ IF side < Len(Sides)
             THEN side' = side + 1 /\ UNCHANGED pc
             ELSE side' = 1 /\ pc' = "snapshot"
  /\ UNCHANGED << pipeline, sanitizer, inputs, outputs, equity_rows, delta_val, i, events >>

\* Mutant: the snapshot holds the cash and holdings the date began with.
EquityRowPreTrade(j) ==
  [ Date   |-> DateOf(j),
    equity |-> portfolio_value(PreCash, PreQty, j),
    cash   |-> PreCash,
    qty    |-> PreQty,
    val    |-> [a \in AssetSet |-> FMul(PreQty[a], PriceOf(j, a))] ]

\* The snapshot of row j: the portfolio as it stands, valued at the row's closes.
EquityRow(j) ==
  [ Date   |-> DateOf(j),
    equity |-> portfolio_value(cash, qty, j),
    cash   |-> cash,
    qty    |-> qty,
    val    |-> [a \in AssetSet |-> FMul(qty[a], PriceOf(j, a))] ]

\* Mutant: buy and hold runs its entry loop again after every snapshot.
SnapshotThenEntry ==
  /\ pc = "snapshot"
  /\ equity_rows' = Append(equity_rows, EquityRow(i))
  /\ IF i < Len(close)
     THEN i' = i + 1 /\ pc' = (IF policy = "periodic" THEN "loop" ELSE "entry")
     ELSE i' = i /\ pc' = "done"
  /\ UNCHANGED << pipeline, sanitizer, inputs, outputs, cash, qty, trade_rows, delta_val, side, k, events >>

\* Either loop: value the portfolio at the row's closes, append the
\* snapshot, go to the next row.
Snapshot ==
  /\ pc = "snapshot"
  /\ equity_rows' = Append(equity_rows, EquityRow(i))
  /\ IF i < Len(close)
     THEN i' = i + 1 /\ pc' = (IF policy = "periodic" THEN "loop" ELSE "snapshot")
     ELSE i' = i /\ pc' = "done"
  /\ UNCHANGED << pipeline, sanitizer, inputs, outputs, cash, qty, trade_rows, delta_val, side, k, events >>

\* Buy and hold: one iteration of the entry loop on the first date.
EntryIter ==
  /\ policy = "buyhold" /\ pc = "entry"
  /\ LET a == assets[k]
         target_notional == FMul(Float(initial_cash), target_w)
         r == ExecBuy(cash, qty[a], a, target_notional, 1)
     IN /\ cash' = r.cash
        /\ qty' = [qty EXCEPT ![a] = r.qty]
        /\ trade_rows' = IF r.traded THEN Append(trade_rows, r.row) ELSE trade_rows
  /\ IF k < Len(assets)
     THEN k' = k + 1 /\ UNCHANGED pc
     ELSE k' = 1 /\ pc' = "snapshot"
  /\ UNCHANGED << pipeline, sanitizer, inputs, outputs, equity_rows, delta_val, i, side, events >>

Next == LoopHead \/ TradeIter \/ Snapshot \/ EntryIter

Spec == Init /\ [][Next]_vars

\* --------------------------------------------------------------- main()
\* main() of either script is started on a panel file with a command line.
InitMain ==
  /\ NoPipeline /\ NoSanitizer
  /\ policy \in {"periodic", "buyhold"}
  /\ panel_file \in PanelFiles
  /\ \E args \in ArgLines :
       /\ initial_cash = args.initial
       /\ costs = [fee_bps |-> args.fee_bps, slippage_bps |-> args.slippage_bps,
                   fixed_per_trade |-> args.fixed]
  /\ assets = <<>>
  /\ close = <<>>
  /\ cash = Zero
  /\ qty = <<>>
  /\ trade_rows = <<>>
  /\ equity_rows = <<>>
  /\ delta_val = <<>>
  /\ pc = "load"
  /\ i = 1
  /\ side = 1
  /\ k = 1
  /\ events = <<>>
  /\ out_files = <<>>
  /\ summary = <<>>

\* main: close = load_panel_close(...), which may raise; then the simulation
\* is entered and sets up its portfolio.
Load ==
  /\ pc = "load"
  /\ \E r \in load_panel_close(panel_file) :
       IF r.error
       THEN /\ pc' = "error"
            /\ UNCHANGED << close, assets, cash, qty, delta_val >>
       ELSE /\ close' = r.df
            /\ assets' = panel_file.header
            /\ cash' = Float(initial_cash)
            /\ qty' = [a \in { panel_file.header[j] : j \in 1..Len(panel_file.header) } |-> Zero]
            /\ delta_val' = qty'
            /\ pc' = IF policy = "periodic" THEN "loop" ELSE "entry"
  /\ UNCHANGED << pipeline, sanitizer, policy, initial_cash, costs, panel_file, outputs, trade_rows,
                  equity_rows, i, side, k, events >>

\* Mutant: the output files are written in a finally clause, whether the
\* run completed or was aborted.
WriteOutputsFinally ==
  /\ pc \in {"done", "error"} /\ out_files = <<>>
  /\ out_files' = << equity_rows, trade_rows >>
  /\ pc' = IF pc = "done" THEN "written" ELSE pc
  /\ UNCHANGED << pipeline, sanitizer, inputs, summary, cash, qty, trade_rows, equity_rows, delta_val,
                  i, side, k, events >>

\* main: equity.to_csv(out_equity); trades.to_csv(out_trades), once the
\* simulation has returned.
WriteOutputs ==
  /\ pc = "done"
  /\ out_files' = << equity_rows, trade_rows >>
  /\ pc' = "written"
  /\ UNCHANGED << pipeline, sanitizer, inputs, summary, cash, qty, trade_rows, equity_rows, delta_val,
                  i, side, k, events >>

\* main: s = summarize_equity(equity), and the report is printed.
Summarize ==
  /\ pc = "written"
  /\ summary' = << summarize_equity(equity_rows) >>
  /\ pc' = IF summary'[1].raised THEN "error" ELSE "end"
  /\ UNCHANGED << pipeline, sanitizer, inputs, out_files, cash, qty, trade_rows, equity_rows, delta_val,
                  i, side, k, events >>

NextMain ==
  Load \/ LoopHead \/ TradeIter \/ Snapshot \/ EntryIter \/ WriteOutputs \/ Summarize

SpecMain == InitMain /\ [][NextMain]_vars

\* summarize_equity is applied to an equity table.
InitStats ==
  /\ NoPipeline /\ NoSanitizer
  /\ policy = "periodic"
  /\ panel_file = NoFile
  /\ initial_cash = InitialCash
  /\ costs = [fee_bps |-> 0, slippage_bps |-> 0, fixed_per_trade |-> 0]
  /\ assets = Columns
  /\ close = <<>>
  /\ cash = Zero
  /\ qty = <<>>
  /\ trade_rows = <<>>
  /\ equity_rows \in EquityTables
  /\ delta_val = <<>>
  /\ pc = "written"
  /\ i = 1
  /\ side = 1
  /\ k = 1
  /\ events = <<>>
  /\ out_files = <<>>
  /\ summary = <<>>

NextStats == Summarize

SpecStats == InitStats /\ [][NextStats]_vars

\* The single-entry script on its own, started with one of several --initial
\* values and cost models that include a 1 % fee.
EntryInitials == {900, 1000}

EntryCostModels ==
  CostModels \cup { [fee_bps |-> 100, slippage_bps |-> 0, fixed_per_trade |-> 0] }

InitEntry ==
  /\ NoPipeline /\ NoSanitizer
  /\ policy = "buyhold"
  /\ panel_file = NoFile
  /\ assets = Columns
  /\ close \in Panels
  /\ out_files = <<>>
  /\ summary = <<>>
  /\ initial_cash \in EntryInitials
  /\ costs \in EntryCostModels
  /\ cash = Float(initial_cash)
  /\ qty = [a \in AssetSet |-> Zero]
  /\ trade_rows = <<>>
  /\ equity_rows = <<>>
  /\ delta_val = [a \in AssetSet |-> Zero]
  /\ pc = "entry"
  /\ i = 1
  /\ side = 1
  /\ k = 1
  /\ events = <<>>

NextEntry == EntryIter \/ Snapshot

SpecEntry == InitEntry /\ [][NextEntry]_vars

\* --------------------------------------------------- cli/daily_update.py
\* No backtest is running.
NoBacktest ==
  /\ policy = "periodic"
  /\ panel_file = NoFile
  /\ initial_cash = InitialCash
  /\ costs = [fee_bps |-> 0, slippage_bps |-> 0, fixed_per_trade |-> 0]
  /\ assets = <<>>
  /\ close = <<>>
  /\ cash = Zero
  /\ qty = <<>>
  /\ trade_rows = <<>>
  /\ equity_rows = <<>>
  /\ delta_val = <<>>
  /\ pc = "none"
  /\ i = 1
  /\ side = 1
  /\ k = 1
  /\ events = <<>>
  /\ out_files = <<>>
  /\ summary = <<>>

\* The steps of main(), in the order of its text.
Steps == <<"download", "normalize", "sanitize", "data_quality", "panels", "baseline">>

\* The steps main() hands to run(): a child process each.
Subprocesses == {"normalize", "sanitize", "data_quality", "baseline"}

\* What a child process can exit with: 0, or 1 or 2 for a failure.
ExitCodes == {0, 1, 2}

\* --skip-download, --skip-baseline and the number of --tickers (nargs="+").
CommandLines ==
  [skip_download : BOOLEAN, skip_baseline : BOOLEAN, tickers : 1..MaxTickers]

\* "if not args.skip_download", "if not args.skip_baseline".
Skipped(s) ==
  \/ Steps[s] = "download" /\ options.skip_download
  \/ Steps[s] = "baseline" /\ options.skip_baseline

LogEntry(s, ev, rc) == [step |-> Steps[s], event |-> ev, code |-> rc]

InitPipeline ==
  /\ NoBacktest /\ NoSanitizer
  /\ options \in CommandLines
  /\ step = 1
  /\ running = FALSE
  /\ failed = FALSE
  /\ ticker = 1
  /\ log = <<>>

\* main() passes over a step its command line switches off.
SkipStep ==
  /\ ~running /\ ~failed
  /\ step <= Len(Steps) /\ Skipped(step)
  /\ step' = step + 1
  /\ UNCHANGED << backtest, sanitizer, options, running, failed, ticker, log >>

\* main() reaches the call of a step: download_yahoo_raw, run or
\* build_panels_from_sanitized is entered.
StartStep ==
  /\ ~running /\ ~failed
  /\ step <= Len(Steps) /\ ~Skipped(step)
  /\ running' = TRUE
  /\ ticker' = 1
  /\ log' = Append(log, LogEntry(step, "start", 0))
  /\ UNCHANGED << backtest, sanitizer, options, step, failed >>

\* One iteration of "for t in tickers": an empty download raises, the last
\* ticker ends the step.
download_yahoo_raw ==
  /\ running /\ Steps[step] = "download"
  /\ \E empty \in BOOLEAN :
       IF empty
       THEN /\ failed' = TRUE /\ running' = FALSE
            /\ log' = Append(log, LogEntry(step, "raise", 1))
            /\ UNCHANGED << step, ticker >>
       ELSE IF ticker < options.tickers
            THEN /\ ticker' = ticker + 1
                 /\ UNCHANGED << step, running, failed, log >>
            ELSE /\ running' = FALSE /\ step' = step + 1
                 /\ log' = Append(log, LogEntry(step, "return", 0))
                 /\ UNCHANGED << failed, ticker >>
  /\ UNCHANGED << backtest, sanitizer, options >>

\* Mutant: run() does not look at the return code.
run_unchecked ==
  /\ running /\ Steps[step] \in Subprocesses
  /\ \E returncode \in ExitCodes :
       log' = Append(log, LogEntry(step, "return", returncode))
  /\ running' = FALSE /\ step' = step + 1
  /\ UNCHANGED << backtest, sanitizer, options, failed, ticker >>

\* run(cmd): subprocess.run returns when the child has exited; a non-zero
\* return code raises RuntimeError, which nothing in main() catches.
run ==
  /\ running /\ Steps[step] \in Subprocesses
  /\ \E returncode \in ExitCodes :
       /\ log' = Append(log, LogEntry(step, "return", returncode))
       /\ IF returncode # 0
          THEN failed' = TRUE /\ UNCHANGED step
          ELSE step' = step + 1 /\ UNCHANGED failed
  /\ running' = FALSE
  /\ UNCHANGED << backtest, sanitizer, options, ticker >>

\* build_panels_from_sanitized: returns the panel paths, or raises (no
\* file, no close column, a cell that is not a number).
build_panels_from_sanitized ==
  /\ running /\ Steps[step] = "panels"
  /\ \E raised \in BOOLEAN :
       IF raised
       THEN /\ failed' = TRUE
            /\ log' = Append(log, LogEntry(step, "raise", 1))
            /\ UNCHANGED step
       ELSE /\ step' = step + 1
            /\ log' = Append(log, LogEntry(step, "return", 0))
            /\ UNCHANGED failed
  /\ running' = FALSE
  /\ UNCHANGED << backtest, sanitizer, options, ticker >>

NextPipeline ==
  SkipStep \/ StartStep \/ download_yahoo_raw \/ run \/ build_panels_from_sanitized

SpecPipeline == InitPipeline /\ [][NextPipeline]_vars

\* ------------------------------------------ engine/datasource/sanitize_ohlc.py
\* A cell of a frame: a number, NaN (an empty field of the CSV file), or a
\* text: pd.read_csv leaves a column that has a field which is not a number
\* as text, its numerals too.
Num(n) == [kind |-> "num", n |-> n, s |-> ""]

Str(text) == [kind |-> "str", n |-> 0, s |-> text]

NaNCell == [kind |-> "nan", n |-> 0, s |-> ""]

OhlcRow(d, o, h, l, c, v) ==
  [Date |-> d, open |-> o, high |-> h, low |-> l, close |-> c, volume |-> v]

\* The rows of the frames: open is a text column, with a field that is not
\* a number; high is below, low above the other prices in some rows; a
\* high, a volume and a Date are missing or broken in some.
OhlcRows ==
  { OhlcRow(Str("d"), o, h, l, Num(5), v) :
      o \in {Str("5"), Str("abc")}, h \in {Num(2), Num(10), NaNCell},
      l \in {Num(2), Num(10)}, v \in {Num(10), Str("abc")} }
  \cup { OhlcRow(NaNCell, Str("5"), Num(10), Num(2), Num(5), Num(10)) }

\* pd.read_csv(f) of the files sanitize_ohlc is run on.
Frames == UNION { [1..n -> OhlcRows] : n \in 1..MaxFrameRows }

\* pd.to_numeric(column, errors="coerce") of one cell: a number stays, a
\* text becomes the number it spells or NaN.
coerce(cell) ==
  IF cell.kind = "str"
  THEN LET r == to_numeric(cell.s) IN IF r[1] THEN Num(r[2]) ELSE NaNCell
  ELSE cell

\* for c in ["open", "high", "low", "close", "volume"]: out[c] = to_numeric
ensure_numeric(row) ==
  [row EXCEPT !.open = coerce(@), !.high = coerce(@), !.low = coerce(@),
              !.close = coerce(@), !.volume = coerce(@)]

\* The row survives dropna(subset=["Date", "open", "high", "low", "close"]).
notna(row) ==
  \A c \in {"Date", "open", "high", "low", "close"} : row[c].kind # "nan"

Max2(a, b) == IF a < b THEN b ELSE a

Min2(a, b) == IF b < a THEN b ELSE a

\* out[["open", "close", "low"]].max(axis=1)
row_max(row) == Max2(Max2(row.open.n, row.close.n), row.low.n)

\* out[["open", "close", "high"]].min(axis=1)
row_min(row) == Min2(Min2(row.open.n, row.close.n), row.high.n)

\* Mutant: no high is ever found too low.
bad_high_never(row) == FALSE

bad_high(row) == row.high.n < row_max(row)

bad_low(row) == row.low.n > row_min(row)

changed(row) == bad_high(row) \/ bad_low(row)

\* out.loc[bad_high, "high"] = row_max; out.loc[bad_low, "low"] = row_min
clamp(row) ==
  [row EXCEPT !.high = IF bad_high(row) THEN Num(row_max(row)) ELSE @,
              !.low  = IF bad_low(row) THEN Num(row_min(row)) ELSE @]

\* The row of the changes table for a changed row.
change(row) ==
  [ Date |-> row.Date, open |-> row.open, high_before |-> row.high,
    low_before |-> row.low, close |-> row.close, volume |-> row.volume,
    row_max |-> row_max(row), row_min |-> row_min(row),
    high_after |-> clamp(row).high, low_after |-> clamp(row).low,
    fixed_high |-> bad_high(row), fixed_low |-> bad_low(row) ]

\* sanitize_df(frame): the sanitized frame and the table of changes.
sanitize_df(frame) ==
  LET numeric  == [j \in 1..Len(frame) |-> ensure_numeric(frame[j])]
      kept     == SelectSeq(numeric, notna)
      reported == SelectSeq(kept, changed)
  IN [ out     |-> [j \in 1..Len(kept) |-> clamp(kept[j])],
       changes |-> [j \in 1..Len(reported) |-> change(reported[j])] ]

InitSanitize ==
  /\ NoBacktest /\ NoPipeline
  /\ df \in Frames
  /\ results = <<>>

\* sanitize_df is applied to the frame read, then to its own output.
Sanitize ==
  /\ Len(results) < MaxApplications
  /\ results' = Append(results,
                       sanitize_df(IF results = <<>> THEN df ELSE Last(results).out))
  /\ UNCHANGED << backtest, pipeline, df >>

NextSanitize == Sanitize

SpecSanitize == InitSanitize /\ [][NextSanitize]_vars

\* ------------------------------------------------------------------ claims
IsNeg(x) == x[1] < 0

IsPos(x) == x[1] > 0

Done == pc = "done"

\* C1: in every run of either strategy cash is >= 0 after every executed
\* trade, SELL as well as BUY, and so in every equity snapshot.
C1_CashNonNegative ==
  /\ ~IsNeg(cash)
  /\ \A j \in 1..Len(equity_rows) : ~IsNeg(equity_rows[j].cash)

Periodic == policy = "periodic"

BuyHold == policy = "buyhold"

\* Row j opens a month of the panel: its month is not that of the row before.
OpensMonth(j) == j = 1 \/ close[j].Date[1] # close[j-1].Date[1]

SellRows == { j \in 1..Len(trade_rows) : trade_rows[j].side = "SELL" }

BuyRows == { j \in 1..Len(trade_rows) : trade_rows[j].side = "BUY" }

\* C2: no shorting: a SELL never liquidates more than is held, so every
\* holding is >= 0 after every trade and in every equity snapshot.
C2_NoShorting ==
  /\ \A a \in AssetSet : ~IsNeg(qty[a])
  /\ \A j \in 1..Len(equity_rows) : \A a \in AssetSet : ~IsNeg(equity_rows[j].qty[a])

\* A SELL has just sold all that was held, less than its delta asked for.
C2_Witness ==
  /\ pc = "trade" /\ trade_rows # <<>>
  /\ LET r == Last(trade_rows)
     IN /\ r.side = "SELL" /\ r.Date = DateOf(i) /\ IsPos(r.qty)
        /\ qty[r.asset] = Zero
        /\ FLt(r.notional, FAbs(delta_val[r.asset]))

EventEnd == Periodic /\ pc = "snapshot" /\ events # <<>> /\ Last(events) = i

\* The orders in which "for a in assets" could visit the universe.
Orders ==
  { o \in [1..Len(assets) -> AssetSet] : \A j, h \in 1..Len(assets) : o[j] = o[h] => j = h }

\* C4 as stated: at a rebalance event, visiting the assets in another order
\* within the SELL pass and within the BUY pass leaves the same cash and the
\* same holdings.
C4_OrderIndependent ==
  EventEnd =>
    \A so \in Orders, bo \in Orders :
      LET r == EventResult(PreCash, PreQty, i, so, bo)
      IN r.cash = cash /\ r.qty = qty

\* C4 amended: the order within the SELL pass changes no holding the SELL pass
\* leaves, and the orders change no holding the event leaves as long as no
\* BUY is cash-limited.
C4_OrderIndependentHoldings ==
  EventEnd =>
    /\ \A so \in Orders :
         SellPass(PreCash, PreQty, i, so).qty = SellPass(PreCash, PreQty, i, assets).qty
    /\ ~EventResult(PreCash, PreQty, i, assets, assets).limited
         => \A so \in Orders, bo \in Orders :
              LET r == EventResult(PreCash, PreQty, i, so, bo)
              IN ~r.limited => r.qty = qty

\* An event that sold two assets, and one that bought two assets with no BUY
\* cash-limited.
C4_Witness ==
  /\ EventEnd
  /\ Cardinality({ j \in BuyRows : trade_rows[j].Date = DateOf(i) }) >= 2
  /\ ~EventResult(PreCash, PreQty, i, assets, assets).limited
  /\ \E j \in SellRows : trade_rows[j].Date = DateOf(i)

\* The ledger rows are BUYs of the first n assets, in column order.
BuysOfFirst(n) ==
  /\ Len(trade_rows) = n
  /\ \A j \in 1..n : trade_rows[j].asset = assets[j] /\ trade_rows[j].side = "BUY"

\* C5 as stated: the buy-and-hold ledger holds exactly one BUY for every
\* asset (initial_cash / N > 0 for each), every row is dated on the panel's
\* first date, and no trade is recorded on a later date.
C5_OneBuyPerAsset ==
  (BuyHold /\ pc \in {"snapshot", "done"}) =>
    /\ BuysOfFirst(Len(assets))
    /\ \A j \in 1..Len(trade_rows) : trade_rows[j].Date = DateOf(1)

\* C5 amended: the buy-and-hold ledger holds at most one BUY per asset and
\* nothing else: one for each asset the entry loop reached while cash
\* exceeded fixed_per_trade, which are the first assets of the column order;
\* every row is dated on the panel's first date and none is added later.
C5_OneBuyPerAffordableAsset ==
  (BuyHold /\ pc \in {"snapshot", "done"}) =>
    /\ \E n \in 0..Len(assets) :
         /\ BuysOfFirst(n)
         /\ n < Len(assets) => FLe(cash, fixed)
    /\ \A j \in 1..Len(trade_rows) : trade_rows[j].Date = DateOf(1)

\* A finished buy-and-hold run over several dates that bought some assets
\* and could not afford the rest.
C5_Witness ==
  /\ BuyHold /\ Done /\ Len(close) > 1
  /\ Len(trade_rows) > 0 /\ Len(trade_rows) < Len(assets)

\* The rows the loop has been through: the rebalance branch of row j was
\* taken or passed.
Visited == { j \in 1..Len(close) : j < i \/ (j = i /\ pc # "loop") }

\* C6: the periodic policy runs a rebalance event on exactly the first panel
\* date of each month of the panel, one event per month, and records no
\* trade on any other date.
C6_FirstDateOfEachMonth ==
  Periodic =>
    /\ \A j \in Visited : OpensMonth(j) <=> \E h \in 1..Len(events) : events[h] = j
    /\ \A h, g \in 1..Len(events) :
         h # g => DateOf(events[h])[1] # DateOf(events[g])[1]
    /\ \A j \in 1..Len(trade_rows) :
         \E h \in 1..Len(close) : OpensMonth(h) /\ DateOf(h) = trade_rows[j].Date

\* A finished periodic run over two months, one of them with a second date.
C6_Witness ==
  /\ Periodic /\ Done /\ Len(events) = 2 /\ Len(close) = 3
  /\ trade_rows # <<>>

\* Snapshot j follows a date step on which no rebalance fired.
NoRebalance(j) == j > 1 /\ (Periodic => ~OpensMonth(j))

\* C7: on every date on which no rebalance fires, cash and every holding are
\* those of the previous snapshot and equity is that cash plus the holdings
\* valued at the date's closes.
C7_EquityConservation ==
  \A j \in 1..Len(equity_rows) :
    NoRebalance(j) =>
      /\ equity_rows[j].cash = equity_rows[j-1].cash
      /\ equity_rows[j].qty = equity_rows[j-1].qty
      /\ equity_rows[j].equity =
           portfolio_value(equity_rows[j-1].cash, equity_rows[j-1].qty, j)

\* A periodic snapshot of a non-rebalance date whose closes moved an asset
\* held since the month's rebalance.
C7_Witness ==
  /\ Periodic
  /\ \E j \in 1..Len(equity_rows) :
       /\ NoRebalance(j)
       /\ \E a \in AssetSet :
            /\ IsPos(equity_rows[j].qty[a])
            /\ close[j].px[a] # close[j-1].px[a]
       /\ equity_rows[j].equity # equity_rows[j-1].equity

\* C8: every ledger row has quantity > 0 and notional > 0: a SELL clamped to
\* zero emits no row.
C8_NoZeroSizeRows ==
  \A j \in 1..Len(trade_rows) : IsPos(trade_rows[j].qty) /\ IsPos(trade_rows[j].notional)

\* Every asset's close is the same on every date of the panel.
ConstantPrices == \A j \in 1..Len(close) : close[j].px = close[1].px

ZeroCosts ==
  costs.fee_bps = 0 /\ costs.slippage_bps = 0 /\ costs.fixed_per_trade = 0

\* C9: with constant prices and zero fee, slippage and fixed cost, every
\* snapshot equity of the periodic policy equals initial_cash and no
\* rebalance event after the first emits a trade.
C9_RoundTrip ==
  (Periodic /\ ConstantPrices /\ ZeroCosts) =>
    /\ \A j \in 1..Len(equity_rows) : equity_rows[j].equity = Float(initial_cash)
    /\ \A j \in 1..Len(trade_rows) : trade_rows[j].Date = DateOf(1)

\* The dates whose step and snapshot are complete.
SnapshotsTaken == IF pc = "done" THEN Len(close) ELSE i - 1

C11_Snapshots ==
  /\ Len(equity_rows) = SnapshotsTaken
  /\ \A j \in 1..Len(equity_rows) :
       /\ equity_rows[j].Date = DateOf(j)
       /\ j > 1 => ~DateLe(equity_rows[j].Date, equity_rows[j-1].Date)
       /\ equity_rows[j].equity =
            FAdd(equity_rows[j].cash, SumValue(equity_rows[j].qty, j, Len(assets)))
       /\ \A a \in AssetSet :
            equity_rows[j].val[a] = FMul(equity_rows[j].qty[a], PriceOf(j, a))

C11_Step ==
  /\ trade_rows' # trade_rows =>
       /\ Last(trade_rows').Date = DateOf(Len(equity_rows) + 1)
       /\ equity_rows' = equity_rows
  /\ equity_rows' # equity_rows =>
       /\ Len(equity_rows') = Len(equity_rows) + 1
       /\ Last(equity_rows').cash = cash /\ Last(equity_rows').qty = qty
       /\ cash' = cash /\ qty' = qty /\ trade_rows' = trade_rows

InvalidConfig ==
  \/ costs.fee_bps < 0 \/ costs.slippage_bps < 0 \/ costs.fixed_per_trade < 0
  \/ initial_cash <= 0

\* C12: a run with a negative fee_bps, slippage_bps or fixed cost, or with
\* zero or negative initial cash, is rejected before the simulation starts:
\* no trade executes, no snapshot is taken and no output file is written.
C12_ConfigRejected ==
  InvalidConfig =>
    /\ pc \in {"load", "error"}
    /\ trade_rows = <<>> /\ equity_rows = <<>> /\ out_files = <<>>

\* load_panel_close has returned a panel.
Loaded == pc \notin {"load", "error"}

\* C13: whatever the order and the repetition of dates in the file, the
\* panel the loader returns holds every date once, in strictly increasing
\* order (rows sorted by date, one row kept per date).
C13_StrictlyIncreasingDates ==
  Loaded =>
    \A j \in 2..Len(close) :
      DateLe(close[j-1].Date, close[j].Date) /\ close[j-1].Date # close[j].Date

\* The numerals of the files and the numbers they denote.
Numerals == { <<"2", 2>>, <<"5", 5>>, <<"10", 10>> }

\* A cell that is empty or is not a number.
BadCell(text) == text = "" \/ text = "abc"

FileHasBadCell ==
  \E j \in 1..Len(panel_file.rows) :
    \E a \in DOMAIN panel_file.rows[j].cells : BadCell(panel_file.rows[j].cells[a])

\* C14: the loader fails, returning no panel, exactly when some price cell
\* of the file is missing or not numeric; a panel it returns has, for every
\* date and asset, the number a row of that date holds in the file.
C14_LoaderRejectsBadCells ==
  pc # "load" =>
    /\ pc = "error" <=> FileHasBadCell
    /\ pc = "error" => close = <<>>
    /\ Loaded =>
         /\ Len(close) = Len(panel_file.rows)
         /\ \A j \in 1..Len(close) : \A a \in AssetSet :
              \E h \in 1..Len(panel_file.rows) :
                /\ panel_file.rows[h].Date = close[j].Date
                /\ << panel_file.rows[h].cells[a], close[j].px[a] >> \in Numerals

\* The loader failed on a file whose first row is sound and whose second
\* row holds a cell that is not a number.
C14_Witness ==
  /\ pc = "error" /\ Len(panel_file.rows) = 2
  /\ \A a \in DOMAIN panel_file.rows[1].cells : ~BadCell(panel_file.rows[1].cells[a])
  /\ \E a \in DOMAIN panel_file.rows[2].cells : panel_file.rows[2].cells[a] = "abc"

\* C15: when the panel fails validation the run stops before a portfolio
\* exists, before any trade or snapshot and before an output file is
\* written; the output files are written only once the simulation has been
\* through the whole panel, and hold its complete tables.
C15_FailFast ==
  /\ FileHasBadCell => pc \in {"load", "error"}
  /\ pc = "error" =>
       /\ cash = Zero /\ qty = <<>>
       /\ trade_rows = <<>> /\ equity_rows = <<>> /\ out_files = <<>>
  /\ out_files # <<>> =>
       /\ pc \in {"written", "end"}
       /\ Len(equity_rows) = Len(panel_file.rows)
       /\ out_files = << equity_rows, trade_rows >>

\* A run was aborted on a file whose earliest row is sound and whose latest
\* row holds a missing cell.
C15_Witness ==
  /\ pc = "error" /\ Len(panel_file.rows) = 2
  /\ \E j, h \in 1..2 :
       /\ panel_file.rows[j].Date # panel_file.rows[h].Date
       /\ DateLe(panel_file.rows[j].Date, panel_file.rows[h].Date)
       /\ \A a \in DOMAIN panel_file.rows[j].cells : ~BadCell(panel_file.rows[j].cells[a])
       /\ \E a \in DOMAIN panel_file.rows[h].cells : panel_file.rows[h].cells[a] = ""

\* The place of an asset identifier in ascending order of identifiers.
Rank(a) == CASE a = "A" -> 1 [] a = "B" -> 2 [] a = "C" -> 3

\* C16: whatever the column order of the panel, the BUY rows of the
\* buy-and-hold ledger come in ascending order of asset identifier.
C16_AscendingAssetOrder ==
  (BuyHold /\ Loaded) =>
    \A j, h \in 1..Len(trade_rows) :
      j < h => Rank(trade_rows[j].asset) < Rank(trade_rows[h].asset)

\* summarize_equity has returned its record.
Summarized == summary # <<>>

Equity(j) == equity_rows[j].equity

\* The equity series is positive and never falls.
NonDecreasingPositive ==
  /\ IsPos(Equity(1))
  /\ \A j \in 2..Len(equity_rows) : FLe(Equity(j-1), Equity(j))

\* Twice the float x.
Twice(x) == << x[1], x[2] + 1 >>

\* The equity series is positive, rises to a peak at p, falls to half the
\* peak at t without going lower, and is back at the peak at r, from where
\* it does not fall.
HalvesAndRecovers ==
  \E p, t, r \in 1..Len(equity_rows) :
    /\ p < t /\ t < r /\ IsPos(Equity(p))
    /\ \A j \in 1..p : IsPos(Equity(j)) /\ FLe(Equity(j), Equity(p))
    /\ Twice(Equity(t)) = Equity(p)
    /\ \A j \in p..r : FLe(Equity(t), Equity(j)) /\ FLe(Equity(j), Equity(p))
    /\ Equity(r) = Equity(p)
    /\ \A j \in (r+1)..Len(equity_rows) : FLe(Equity(j-1), Equity(j))

\* C17: the maximum drawdown is 0 for a positive equity series that never
\* falls, -0.5 (-50 %) for one that halves from its peak and recovers, and
\* is never positive.
C17_DrawdownBoundary ==
  Summarized =>
    /\ NonDecreasingPositive => summary[1].MaxDrawdown_pct = Zero
    /\ HalvesAndRecovers => summary[1].MaxDrawdown_pct = Float(-50)
    /\ \/ summary[1].MaxDrawdown_pct = NaN
       \/ summary[1].MaxDrawdown_pct = NegInf
       \/ IsFinite(summary[1].MaxDrawdown_pct) /\ ~IsPos(summary[1].MaxDrawdown_pct)

\* The summary of a series that rose, halved and recovered.
C17_Witness ==
  /\ Summarized /\ HalvesAndRecovers
  /\ summary[1].MaxDrawdown_pct = Float(-50)

\* C18: when the first and the last snapshot date are the same,
\* summarize_equity returns a CAGR of 0 and raises nothing; the power is
\* evaluated only when the elapsed years are positive.
C18_CagrGuard ==
  Summarized =>
    /\ equity_rows[1].Date = Last(equity_rows).Date =>
         /\ ~summary[1].raised /\ pc = "end"
         /\ ~summary[1].CAGR.pow /\ summary[1].CAGR.base = Zero
         /\ summary[1].years = Zero
    /\ summary[1].CAGR.pow => IsPos(summary[1].years) /\ ~summary[1].raised

\* The summary of a table of a single date.
C18_Witness ==
  /\ Summarized /\ Len(equity_rows) = 1 /\ pc = "end"
  /\ ~summary[1].CAGR.pow

\* The loop is about to size a BUY: the BUY pass of a rebalance event at an
\* asset with a positive delta, or an iteration of the entry loop.
BuyAttempt ==
  \/ pc = "trade" /\ Sides[side] = "BUY" /\ IsPos(delta_val[assets[k]])
  \/ pc = "entry"

\* The notional the BUY asks for.
Desired ==
  IF pc = "entry" THEN FMul(Float(initial_cash), target_w) ELSE delta_val[assets[k]]

\* min(desired notional, max(0, (cash - fixed_per_trade) / (1 + fee_rate)))
Sized == FMin(Desired, FMax(Zero, FDiv(FSub(cash, fixed), FAdd(One, fee_rate))))

C19_Step ==
  BuyAttempt =>
    IF IsPos(Sized)
    THEN /\ Len(trade_rows') = Len(trade_rows) + 1
         /\ Last(trade_rows').side = "BUY"
         /\ Last(trade_rows').notional = Sized
         /\ FLe(FAdd(FAdd(Sized, FMul(Sized, fee_rate)), fixed), cash)
         /\ ~IsNeg(cash) => ~IsNeg(cash')
    ELSE UNCHANGED << cash, qty, trade_rows >>

\* C19: an executed BUY has notional min(desired, max(0, (cash - fixed) /
\* (1 + fee_rate))), which with its fee and the fixed cost is at most the
\* cash held before it, so that non-negative cash stays non-negative; when
\* that notional is not positive there is no BUY and nothing changes.
C19_BuySizing == [][C19_Step]_vars

IsEventBuy(row) == row.side = "BUY" /\ row.Date = DateOf(i)

\* The BUY rows of the current date's rebalance event, in ledger order.
EventBuys == SelectSeq(trade_rows, IsEventBuy)

\* The place of asset a in the iteration order.
Place(a) == CHOOSE n \in 1..Len(assets) : assets[n] = a

\* max(0, (c - fixed_per_trade) / (1 + fee_rate))
Affordable(c) == FMax(Zero, FDiv(FSub(c, fixed), FAdd(One, fee_rate)))

\* The cash the SELL pass of the current event left.
CashAfterSells == SellPass(PreCash, PreQty, i, assets).cash

\* The cash at hand before the n-th BUY of the event: what the SELL pass
\* left, less the notional and fees of the BUYs before it.
RECURSIVE CashBeforeBuy(_)
CashBeforeBuy(n) ==
  IF n = 1 THEN CashAfterSells
  ELSE FSub(CashBeforeBuy(n - 1),
            FAdd(EventBuys[n-1].notional, EventBuys[n-1].fee_total))

\* C20 as stated: every BUY of a rebalance event is limited by the maximum
\* affordable from the cash as it stood before any BUY of the event, the
\* assets served in iteration order.
C20_CashBeforeAnyBuy ==
  EventEnd =>
    \A n \in 1..Len(EventBuys) :
      /\ EventBuys[n].notional =
           FMin(delta_val[EventBuys[n].asset], Affordable(CashAfterSells))
      /\ n > 1 => Place(EventBuys[n-1].asset) < Place(EventBuys[n].asset)

\* C20 amended: every BUY of a rebalance event is limited by the maximum
\* affordable from the cash at hand when it executes: the cash the SELL pass
\* left less the notional and fees of the event's earlier BUYs, the assets
\* served in iteration order.
C20_RunningCash ==
  EventEnd =>
    \A n \in 1..Len(EventBuys) :
      /\ EventBuys[n].notional =
           FMin(delta_val[EventBuys[n].asset], Affordable(CashBeforeBuy(n)))
      /\ n > 1 => Place(EventBuys[n-1].asset) < Place(EventBuys[n].asset)

\* An event whose second BUY was cut to what the first BUY left, though the
\* cash before the first BUY would have paid for it in full.
C20_Witness ==
  /\ EventEnd /\ Len(EventBuys) >= 2
  /\ FLt(EventBuys[2].notional, delta_val[EventBuys[2].asset])
  /\ ~FLt(Affordable(CashAfterSells), delta_val[EventBuys[2].asset])

\* The fee fields of a ledger row follow from its notional.
RowFees(row) ==
  /\ row.fee_var = FMul(row.notional, fee_rate)
  /\ row.fee_fixed = fixed
  /\ row.fee_total = FAdd(row.fee_var, row.fee_fixed)

\* A step that records a trade moves cash by the row's notional and fees.
C21_CashStep ==
  trade_rows' # trade_rows =>
    LET row == Last(trade_rows')
    IN /\ Len(trade_rows') = Len(trade_rows) + 1
       /\ row.side = "SELL" => cash' = FAdd(cash, FSub(row.notional, row.fee_total))
       /\ row.side = "BUY" => cash' = FSub(cash, FAdd(row.notional, row.fee_total))

C21_RowsAsStated ==
  \A j \in 1..Len(trade_rows) :
    /\ trade_rows[j].notional = FMul(trade_rows[j].qty, trade_rows[j].price)
    /\ RowFees(trade_rows[j])

C21_RowsAsComputed ==
  \A j \in 1..Len(trade_rows) :
    /\ trade_rows[j].side = "SELL" =>
         trade_rows[j].notional = FMul(trade_rows[j].qty, trade_rows[j].price)
    /\ trade_rows[j].side = "BUY" =>
         trade_rows[j].qty = FDiv(trade_rows[j].notional, trade_rows[j].price)
    /\ RowFees(trade_rows[j])

\* C21 as stated: every ledger row has notional = qty * price, fee_var =
\* notional * fee_rate, fee_fixed = fixed_per_trade (whatever the size of the
\* trade) and fee_total = fee_var + fee_fixed; a SELL credits cash by
\* notional - fee_total and a BUY debits it by notional + fee_total.
C21_LedgerArithmetic == [](C21_RowsAsStated) /\ [][C21_CashStep]_vars

\* C21 amended: a SELL row has notional = qty * price and a BUY row has
\* qty = notional / price; every row has fee_var = notional * fee_rate,
\* fee_fixed = fixed_per_trade and fee_total = fee_var + fee_fixed; a SELL
\* credits cash by notional - fee_total, a BUY debits it by notional +
\* fee_total.
C21_LedgerArithmeticBySide == [](C21_RowsAsComputed) /\ [][C21_CashStep]_vars

\* The ledger holds a charged SELL and a charged BUY whose notional is not
\* the float product of its quantity and price.
C21_Witness ==
  /\ \E j \in SellRows : IsPos(trade_rows[j].fee_fixed)
  /\ \E j \in BuyRows :
       /\ IsPos(trade_rows[j].fee_fixed)
       /\ trade_rows[j].notional # FMul(trade_rows[j].qty, trade_rows[j].price)

\* The panel close of a ledger row's date and asset.
CloseOf(row) ==
  PriceOf(CHOOSE h \in 1..Len(close) : DateOf(h) = row.Date, row.asset)

\* slippage_bps / 10000
SlippageRate == FDiv(Float(costs.slippage_bps), Float(10000))

\* C22: every SELL row is priced at close * (1 - slippage_rate) and every
\* BUY row at close * (1 + slippage_rate) of the row's date and asset; with
\* slippage >= 0 a BUY price is >= the close and a SELL price <= the close.
C22_ExecutionPrice ==
  \A j \in 1..Len(trade_rows) :
    LET row == trade_rows[j]
    IN /\ row.side = "SELL" =>
            /\ row.price = FMul(CloseOf(row), FSub(One, SlippageRate))
            /\ FLe(row.price, CloseOf(row))
       /\ row.side = "BUY" =>
            /\ row.price = FMul(CloseOf(row), FAdd(One, SlippageRate))
            /\ FLe(CloseOf(row), row.price)

\* With slippage, one date's ledger has a SELL priced below its close and a
\* BUY priced above its close.
C22_Witness ==
  \E j \in SellRows : \E h \in BuyRows :
    /\ trade_rows[j].Date = trade_rows[h].Date
    /\ FLt(trade_rows[j].price, CloseOf(trade_rows[j]))
    /\ FLt(CloseOf(trade_rows[h]), trade_rows[h].price)

\* initial_cash / N
EntryTarget == FDiv(Float(initial_cash), Float(Len(assets)))

\* C23: in the single-entry policy every BUY is sized from initial_cash / N,
\* not from the cash left by earlier buys, so its notional is positive and
\* <= initial_cash / N, and the notional and fees debited over all entry
\* buys are <= initial_cash: the cash left is never negative.
C23_EntryFromInitialCash ==
  BuyHold =>
    /\ \A j \in 1..Len(trade_rows) :
         /\ trade_rows[j].side = "BUY"
         /\ IsPos(trade_rows[j].notional)
         /\ FLe(trade_rows[j].notional, EntryTarget)
    /\ ~IsNeg(cash)

\* The equity the current date began with, at the date's closes.
PreEquity == portfolio_value(PreCash, PreQty, i)

\* The equity after the current date's trades, at the date's closes.
PostEquity == portfolio_value(cash, qty, i)

\* C25: with zero fee, slippage and fixed cost, after every rebalance event
\* of the periodic policy every asset's value is the pre-trade equity / N and
\* cash is 0: the proceeds of the SELL pass fund the BUY pass in full.
C25_ProceedsFundBuys ==
  (EventEnd /\ ZeroCosts) =>
    /\ cash = Zero
    /\ \A a \in AssetSet :
         FMul(qty[a], PriceOf(i, a)) = FDiv(PreEquity, Float(Len(assets)))

\* C26: at every rebalance date the equity after the trades is at most the
\* equity before them, both at the date's closes, and equal to it when fee,
\* slippage and fixed cost are all zero.
C26_NoValueCreated ==
  EventEnd =>
    /\ FLe(PostEquity, PreEquity)
    /\ ZeroCosts => PostEquity = PreEquity

\* Every date of the panel is in one calendar month.
OneMonth == \A j \in 1..Len(close) : DateOf(j)[1] = DateOf(1)[1]

C28_SolventWithoutFixedCost ==
  (Periodic /\ costs.fixed_per_trade = 0) =>
    /\ ~IsNeg(cash)
    /\ pc \in {"trade", "snapshot"} => ~IsNeg(PostEquity)
    /\ \A j \in 1..Len(equity_rows) :
         ~IsNeg(equity_rows[j].cash) /\ ~IsNeg(equity_rows[j].equity)

\* The places in the log where a step starts.
Starts == { p \in 1..Len(log) : log[p].event = "start" }

\* The place of a step in the pipeline: download, normalize, sanitize,
\* data-quality check, panel build, baseline.
StepNo(name) == CHOOSE s \in 1..Len(Steps) : Steps[s] = name

\* The log entry that says step s finished without an error.
Finished(s) == [step |-> Steps[s], event |-> "return", code |-> 0]

\* C24: the daily update starts its steps in the order download, normalize,
\* sanitize, data-quality check, panel build, baseline; a step starts only
\* after every step before it that the command line does not switch off
\* has finished, the one just before it last; and after a non-zero exit
\* code of a subprocess (or an exception of a step) nothing more happens:
\* no later step starts.
C24_PipelineOrder ==
  /\ \A p \in Starts, q \in Starts :
       p < q => StepNo(log[p].step) < StepNo(log[q].step)
  /\ \A p \in Starts :
       /\ p > 1 => log[p-1].event = "return" /\ log[p-1].code = 0
       /\ \A s \in 1..(StepNo(log[p].step) - 1) :
            Skipped(s) \/ \E q \in 1..(p-1) : log[q] = Finished(s)
  /\ running => log # <<>> /\ Last(log) = LogEntry(step, "start", 0)
  /\ \A p \in 1..Len(log) :
       log[p].code # 0 => p = Len(log) /\ failed /\ ~running

C24_Witness ==
  /\ failed /\ ~options.skip_download /\ ~options.skip_baseline
  /\ Last(log).step = "data_quality" /\ Last(log).code = 2
  /\ \E p \in Starts : log[p].step = "sanitize"
  /\ \A p \in Starts : log[p].step # "baseline"

\* The cell is a number, or a text that spells one.
IsNumber(cell) ==
  cell.kind = "num" \/ (cell.kind = "str" /\ \E nm \in Numerals : nm[1] = cell.s)

\* The number a cell is or spells.
Value(cell) ==
  IF cell.kind = "num" THEN cell.n
  ELSE (CHOOSE nm \in Numerals : nm[1] = cell.s)[2]

\* The cell after is the cell before: the same number, or missing as before.
Same(before, after) ==
  \/ IsNumber(before) /\ after.kind = "num" /\ after.n = Value(before)
  \/ before.kind = "nan" /\ after.kind = "nan"

\* A row sanitize_df retains: it has a Date and its four prices are numbers.
Retained(row) ==
  /\ row.Date.kind # "nan"
  /\ \A c \in {"open", "high", "low", "close"} : IsNumber(row[c])

\* The frame the p-th application of sanitize_df was given.
Given(p) == IF p = 1 THEN df ELSE results[p-1].out

\* Every row of the p-th output is in range: high is the largest and low the
\* smallest of its four prices.
InRange(p) ==
  \A j \in 1..Len(results[p].out) :
    LET row == results[p].out[j]
    IN /\ row.high.n >= row.open.n /\ row.high.n >= row.close.n
       /\ row.high.n >= row.low.n
       /\ row.low.n <= row.open.n /\ row.low.n <= row.close.n
       /\ row.low.n <= row.high.n

\* The rows of the p-th output are the retained rows of its input, in order,
\* and their Date, open and close are those of the input.
Keeps(p) ==
  LET before == SelectSeq(Given(p), Retained)
      after  == results[p].out
  IN /\ Len(after) = Len(before)
     /\ \A j \in 1..Len(after) :
          /\ after[j].Date = before[j].Date
          /\ Same(before[j].open, after[j].open)
          /\ Same(before[j].close, after[j].close)

\* Applied to its own output, sanitize_df changes no row and reports nothing.
Idempotent(p) ==
  p > 1 => results[p].out = Given(p) /\ results[p].changes = <<>>

\* C29 as stated: every retained row is in range; open, close and volume of
\* a retained row are never changed; sanitize_df is idempotent.
C29_Sanitized ==
  \A p \in 1..Len(results) :
    /\ InRange(p) /\ Keeps(p) /\ Idempotent(p)
    /\ \A j \in 1..Len(results[p].out) :
         Same(SelectSeq(Given(p), Retained)[j].volume, results[p].out[j].volume)

\* C29, amended: every retained row is in range; open and close of a
\* retained row are never changed, and its volume is unchanged when it is a
\* number or missing and becomes NaN when it is a text that is not a
\* number; sanitize_df is idempotent.
C29_SanitizedVolumeCoerced ==
  \A p \in 1..Len(results) :
    /\ InRange(p) /\ Keeps(p) /\ Idempotent(p)
    /\ \A j \in 1..Len(results[p].out) :
         LET before == SelectSeq(Given(p), Retained)[j].volume
             after  == results[p].out[j].volume
         IN IF IsNumber(before) \/ before.kind = "nan"
            THEN Same(before, after)
            ELSE after = NaNCell

C29_Witness ==
  /\ Len(results) = 2
  /\ Len(df) = 2 /\ Len(results[1].out) = 1
  /\ Len(results[1].changes) = 1
  /\ results[1].changes[1].fixed_high /\ results[1].changes[1].fixed_low
  /\ \E j \in 1..Len(df) : Retained(df[j]) /\ ~IsNumber(df[j].volume)
==========================================================================
